---- MODULE Spec2Model ----
EXTENDS Naturals, Integers, Sequences, FiniteSets, TLC

(***************************************************************************)
(* Generic REST front-end of luxas/digitized: one Resource Handler         *)
(* (pkg/rest/resource.go) with its request context chain, the identity     *)
(* resolver (pkg/apis/meta) and the Object Store it talks to.              *)
(* A behaviour builds one handler for one registered kind, registers       *)
(* hooks during startup and then serves requests one at a time.            *)
(***************************************************************************)

VARIABLES
    phase,      \* "startup" until ListenBlocking, then "serving"
    rh,         \* resourceHandlerImpl: gvkr, postHooks, putHooks, deleteHooks
    routes,     \* the (verb, path) routes newResourceHandler registered
    store,      \* Object Store: ObjectKey -> object
    nextHook,   \* number of hooks registered so far
    resp,       \* the last request and what the handler answered
    args,       \* NewAPIGroupsHandler's scheme, ignoredGroups and ignoredKinds
    agh,        \* apiGroupsHandlerImpl.apiGroups: group-version -> kind -> handler
    found,      \* the last GroupVersion / Kind lookup and its answer
    cfg,        \* the converter's Config
    videoIndex, \* the converter's next output video
    w,          \* the lines makeVideoConfig wrote for the last output video
    inflight    \* a patch between its store patch and its re-read

registryVars == <<args, agh, found>>

converterVars == <<cfg, videoIndex, w>>

vars == <<phase, rh, routes, store, nextHook, resp, registryVars, converterVars, inflight>>

\* ---------------------------------------------------------------- bounds

\* At most this many hooks are registered on one handler during startup.
MaxHooks == 2

\* At most this many objects are held by the store.
MaxStore == 2

\* The clips of the converter's input are numbered 0..MaxClip.
MaxClip == 2

\* ------------------------------------------------------------- universes

\* .metadata.name values and :name path parameters.
Names == {"", "002", "001-002"}

\* .metadata.namespace values and :namespace path parameters.
Namespaces == {"", "p", "p-001"}

\* Payloads: the RecorderSpec.Action of a Recorder, opaque for other kinds.
Specs == {"", "None"}

\* ---------------------------------------------------------- HTTP statuses

StatusOK == 200
StatusCreated == 201
StatusNoContent == 204
StatusBadRequest == 400
StatusNotFound == 404
StatusInternalServerError == 500

\* ------------------------------------------------------------ the kinds

\* The types of the scheme with the capabilities they declare:
\* "true"/"false" is what IsNamespaced()/IsSingleton() returns, "absent"
\* means the type does not implement the interface.
KnownTypes ==
    { [kind |-> "Project",  nsCap |-> "false", singCap |-> "absent"],
      [kind |-> "Clip",     nsCap |-> "true",  singCap |-> "absent"],
      [kind |-> "Recorder", nsCap |-> "false", singCap |-> "true"] }

Kinds == {t.kind : t \in KnownTypes}

TypeOf(kind) == CHOOSE t \in KnownTypes : t.kind = kind

\* meta.IsSingleton: the capability is declared and reports true.
IsSingleton(caps) == caps.singCap = "true"

\* meta.IsNamespaced: the capability is declared and reports true.
IsNamespaced(caps) == caps.nsCap = "true"

\* inflection.Plural on the kind names of the scheme.
Plural(kind) ==
    CASE kind = "Project" -> "Projects"
      [] kind = "Clip" -> "Clips"
      [] kind = "Recorder" -> "Recorders"
      [] kind = "Config" -> "Configs"
      [] kind = "MergeCassetteAction" -> "MergeCassetteActions"
      [] kind = "List" -> "Lists"
      [] kind = "Status" -> "Statuses"

\* strings.ToLower on the (pluralised) kind names of the scheme.
ToLower(s) ==
    CASE s = "Projects" -> "projects"
      [] s = "Clips" -> "clips"
      [] s = "Recorder" -> "recorder"
      [] s = "Recorders" -> "recorders"
      [] s = "Project" -> "project"
      [] s = "Clip" -> "clip"
      [] s = "Configs" -> "configs"
      [] s = "MergeCassetteActions" -> "mergecassetteactions"
      [] s = "Lists" -> "lists"
      [] s = "Statuses" -> "statuses"

\* The GroupVersionKindResource with the plural as the resource of every kind.
GVKR_AlwaysPlural(t) ==
    [ kind       |-> t.kind,
      resource   |-> ToLower(Plural(t.kind)),
      namespaced |-> IsNamespaced(t),
      singleton  |-> IsSingleton(t) ]

\* The GroupVersionKindResource newGroupVersionHandler builds for a type.
GVKR(t) ==
    [ kind       |-> t.kind,
      resource   |-> ToLower(IF IsSingleton(t) THEN t.kind ELSE Plural(t.kind)),
      namespaced |-> IsNamespaced(t),
      singleton  |-> IsSingleton(t) ]

\* ---------------------------------------------------------- the objects

Objects == [kind : Kinds, name : Names, namespace : Namespaces, spec : Specs]

NoObj == [kind |-> "", name |-> "", namespace |-> "", spec |-> ""]

\* A body the decoder rejects.
BadBody == [kind |-> "?", name |-> "", namespace |-> "", spec |-> ""]

\* ----------------------------------------------------------- validation

\* utilvalidation.IsDNS1123Label on the names of the universe.
IsDNS1123Label(name) == name \in {"002", "001-002", "p", "p-001"}

\* isValidCassetteName: three characters that parse as a number.
isValidCassetteName(idx) == idx \in {"001", "002"}

\* isValidClipName: two cassette names joined by one dash.
isValidClipName(name) == name \in {"001-002"}

\* isValidRecorderAction: one of None, Preview, Record.
isValidRecorderAction(ra) == ra \in {"None", "Preview", "Record"}

\* The Validate() method of each kind; every kind of the scheme has one.
\* The Recorder's Spec.Cassette is not part of the payload, so it is "".
Validate(obj) ==
    CASE obj.kind = "Project" -> IsDNS1123Label(obj.name)
      [] obj.kind = "Clip" -> isValidClipName(obj.name)
      [] obj.kind = "Recorder" ->
            /\ isValidRecorderAction(obj.spec)
            /\ obj.spec \notin {"Preview", "Record"}

\* ValidateIfPossible that finds no Validate() method on any object.
ValidateIfPossible_NotValidatable(obj) == TRUE

\* meta.ValidateIfPossible: TRUE when Validate() returns no error.
ValidateIfPossible(obj) == Validate(obj)

\* SetDefaults_RecorderSpec, through the serializer's Defaulter.
Default(obj) ==
    IF obj.kind = "Recorder" /\ obj.spec = ""
    THEN [obj EXCEPT !.spec = "None"]
    ELSE obj

\* ------------------------------------------------------------ identity

SingletonIdentifierKey == "singleton"

SingletonIdentifier == SingletonIdentifierKey

NameIdentifier(name) == name

NameNamespaceIdentifier(ns, name) == ns \o "-" \o name

\* Identify without its singleton branch.
Identify_NoSingleton(caps, name, namespace) ==
    IF caps.nsCap = "false"
    THEN [ok |-> TRUE, id |-> NameIdentifier(name)]
    ELSE IF namespace = "" \/ name = ""
    THEN [ok |-> FALSE, id |-> ""]
    ELSE [ok |-> TRUE, id |-> NameNamespaceIdentifier(namespace, name)]

\* Metav1NameIdentifierFactory.Identify on an object with the capabilities
\* caps, name and namespace: [ok, id].
Identify(caps, name, namespace) ==
    IF IsSingleton(caps)
    THEN [ok |-> TRUE, id |-> SingletonIdentifier]
    ELSE IF caps.nsCap = "false"
    THEN [ok |-> TRUE, id |-> NameIdentifier(name)]
    ELSE IF namespace = "" \/ name = ""
    THEN [ok |-> FALSE, id |-> ""]
    ELSE [ok |-> TRUE, id |-> NameNamespaceIdentifier(namespace, name)]

\* storage.NewObjectKey
NewObjectKey(kind, id) == [kind |-> kind, id |-> id]

NoKey == [kind |-> "", id |-> ""]

\* meta.SingletonKey
SingletonKey(kind) == NewObjectKey(kind, SingletonIdentifier)

\* Storage.ObjectKeyFor on a typed object: the capabilities are its type's.
ObjectKeyFor(obj) ==
    LET i == Identify(TypeOf(obj.kind), obj.name, obj.namespace)
    IN  [ok |-> i.ok, key |-> NewObjectKey(obj.kind, i.id)]

\* ---------------------------------------------------------------- errors

NoErr == [type |-> "none", code |-> 0, msg |-> "", hook |-> 0]

\* newStatusError / newStatusErrorf
newStatusError(code, msg) ==
    [type |-> "status", code |-> code, msg |-> msg, hook |-> 0]

\* An error of the store or a library, returned as it is.
RawError(msg) == [type |-> "raw", code |-> 0, msg |-> msg, hook |-> 0]

\* The error value hook h returns: opaque to the handler.
HookError(h) == [type |-> "hook", code |-> 0, msg |-> "hook failed", hook |-> h]

ErrNotFound == "resource not found"
ErrAlreadyExists == "resource already exists"
ErrNoIdentifier == "couldn't identify object"

\* errorHandler: the HTTP status written for a returned error.
ErrorToAPIStatus(err) ==
    IF err.type = "status" THEN err.code ELSE StatusInternalServerError

\* ---------------------------------------------------------------- routes

nameParamPath == "/:name/"

\* The paths a request for the resource may name.
ResourcePath(gvkr) == "/" \o gvkr.resource

NamespacedPath(gvkr) == "/namespaces/:namespace" \o ResourcePath(gvkr)

Route(verb, path, handler, mw) ==
    [verb |-> verb, path |-> path, handler |-> handler, mw |-> mw]

\* The routes of the specification's route table: GET and PATCH alone for a
\* singleton, no PATCH and the writes on /<resource>/ for the other kinds.
newResourceHandler_SpecTable(gvkr) ==
    LET base == IF gvkr.namespaced THEN NamespacedPath(gvkr) ELSE ResourcePath(gvkr)
        gmw  == IF gvkr.namespaced THEN <<"resource", "namespaced">> ELSE <<"resource">>
    IN  IF gvkr.singleton
        THEN { Route("GET", ResourcePath(gvkr) \o "/", "getSingleton", <<"resource">>),
               Route("PATCH", ResourcePath(gvkr) \o "/", "patch", <<"resource">>) }
        ELSE { Route("GET", ResourcePath(gvkr) \o "/", "list", <<"resource">>),
               Route("POST", ResourcePath(gvkr) \o "/", "create", <<"resource">>),
               Route("PUT", ResourcePath(gvkr) \o "/", "update", <<"resource">>),
               Route("GET", base \o "/", "list", gmw),
               Route("GET", base \o nameParamPath, "get", gmw \o <<"named">>),
               Route("DELETE", base \o nameParamPath, "delete", gmw \o <<"named">>) }

\* newResourceHandler without the PATCH route on the root of the group.
newResourceHandler_NoPatch(gvkr) ==
    LET base == IF gvkr.namespaced THEN NamespacedPath(gvkr) ELSE ResourcePath(gvkr)
        gmw  == IF gvkr.namespaced THEN <<"resource", "namespaced">> ELSE <<"resource">>
    IN  (IF gvkr.namespaced
         THEN {Route("GET", ResourcePath(gvkr) \o "/", "list", <<"resource">>)}
         ELSE {})
        \cup { Route("POST", base \o "/", "create", gmw),
               Route("PUT", base \o "/", "update", gmw) }
        \cup (IF gvkr.singleton
              THEN {Route("GET", base \o "/", "getSingleton", gmw)}
              ELSE { Route("GET", base \o "/", "list", gmw),
                     Route("GET", base \o nameParamPath, "get", gmw \o <<"named">>),
                     Route("DELETE", base \o nameParamPath, "delete", gmw \o <<"named">>) })

\* newResourceHandler: the routes registered for a kind, each with the
\* handler method and the middlewares in front of it.
newResourceHandler(gvkr) ==
    LET base == IF gvkr.namespaced THEN NamespacedPath(gvkr) ELSE ResourcePath(gvkr)
        gmw  == IF gvkr.namespaced THEN <<"resource", "namespaced">> ELSE <<"resource">>
    IN  (IF gvkr.namespaced
         THEN {Route("GET", ResourcePath(gvkr) \o "/", "list", <<"resource">>)}
         ELSE {})
        \cup { Route("POST", base \o "/", "create", gmw),
               Route("PATCH", base \o "/", "patch", gmw),
               Route("PUT", base \o "/", "update", gmw) }
        \cup (IF gvkr.singleton
              THEN {Route("GET", base \o "/", "getSingleton", gmw)}
              ELSE { Route("GET", base \o "/", "list", gmw),
                     Route("GET", base \o nameParamPath, "get", gmw \o <<"named">>),
                     Route("DELETE", base \o nameParamPath, "delete", gmw \o <<"named">>) })

Verbs == {"GET", "POST", "PUT", "PATCH", "DELETE"}

\* Every path shape a client may ask for under the resource.
Paths(gvkr) ==
    { ResourcePath(gvkr) \o "/", ResourcePath(gvkr) \o nameParamPath,
      NamespacedPath(gvkr) \o "/", NamespacedPath(gvkr) \o nameParamPath }

HasNamespaceParam(gvkr, path) ==
    path \in {NamespacedPath(gvkr) \o "/", NamespacedPath(gvkr) \o nameParamPath}

HasNameParam(gvkr, path) ==
    path \in {ResourcePath(gvkr) \o nameParamPath, NamespacedPath(gvkr) \o nameParamPath}

NoReq == [verb |-> "", path |-> "", namespace |-> "", name |-> ""]

\* ------------------------------------------------- the API groups registry

\* The group-version of the application's kinds, and metav1.Unversioned.
V1alpha1 == "digitized.luxaslabs.com/v1alpha1"

Unversioned == "v1"

\* The types of the application's scheme with their group-version: the
\* served kinds, the kinds cmd/digitized hides, and an unversioned type.
SchemeTypes ==
    { [gv |-> V1alpha1, kind |-> t.kind, nsCap |-> t.nsCap, singCap |-> t.singCap] :
        t \in KnownTypes }
    \cup { [gv |-> V1alpha1, kind |-> "Config", nsCap |-> "false", singCap |-> "absent"],
           [gv |-> V1alpha1, kind |-> "MergeCassetteAction", nsCap |-> "false",
            singCap |-> "absent"],
           [gv |-> V1alpha1, kind |-> "List", nsCap |-> "false", singCap |-> "absent"],
           [gv |-> Unversioned, kind |-> "Status", nsCap |-> "absent",
            singCap |-> "absent"] }

\* The arguments cmd/digitized gives NewRESTServer.
ProgramArgs ==
    [ scheme        |-> SchemeTypes,
      ignoredGroups |-> {Unversioned},
      ignoredKinds  |-> { <<V1alpha1, "Config">>, <<V1alpha1, "MergeCassetteAction">>,
                          <<V1alpha1, "List">> } ]

\* Scheme.PrioritizedVersionsAllGroups: the group-versions of the scheme.
PrioritizedVersionsAllGroups(scheme) == {t.gv : t \in scheme}

\* A handler as newResourceHandler leaves it: no hook registered.
NewHandler(gvkr) ==
    [gvkr |-> gvkr, postHooks |-> <<>>, putHooks |-> <<>>, deleteHooks |-> <<>>]

\* newGroupVersionHandler that skips no kind.
newGroupVersionHandler_AllKinds(gv, scheme, ignoredKinds) ==
    LET ts == {t \in scheme : t.gv = gv}
    IN  [ k \in {t.kind : t \in ts} |->
            NewHandler(GVKR(CHOOSE t \in ts : t.kind = k)) ]

\* newGroupVersionHandler: the handlers of the kinds of gv, by kind.
newGroupVersionHandler(gv, scheme, ignoredKinds) ==
    LET ts == {t \in scheme : t.gv = gv /\ <<gv, t.kind>> \notin ignoredKinds}
    IN  [ k \in {t.kind : t \in ts} |->
            NewHandler(GVKR(CHOOSE t \in ts : t.kind = k)) ]

\* NewAPIGroupsHandler: the group-version handlers, by group-version.
NewAPIGroupsHandler(scheme, ignoredGroups, ignoredKinds) ==
    [ gv \in PrioritizedVersionsAllGroups(scheme) \ ignoredGroups |->
        newGroupVersionHandler(gv, scheme, ignoredKinds) ]

NoHandler ==
    NewHandler([kind |-> "", resource |-> "", namespaced |-> FALSE, singleton |-> FALSE])

NoLookup == [gv |-> "", kind |-> "", ok |-> FALSE, rh |-> NoHandler]

\* apiGroupsHandlerImpl.GroupVersion
GroupVersion(gv) == [gv |-> gv, kind |-> "", ok |-> gv \in DOMAIN agh, rh |-> NoHandler]

\* groupVersionHandlerImpl.Kind on the handler of gv
Kind(gv, kind) ==
    [ gv |-> gv, kind |-> kind, ok |-> kind \in DOMAIN agh[gv],
      rh |-> IF kind \in DOMAIN agh[gv] THEN agh[gv][kind] ELSE NoHandler ]

\* --------------------------------------------------------- context chain

\* The context after resourceContextMiddleware: no namespace, no name.
ResourceContext ==
    [err |-> NoErr, hasNs |-> FALSE, namespace |-> "", hasName |-> FALSE, name |-> ""]

\* The middleware with the namespace "p" in place of an empty parameter.
namespacedResourceContextMiddleware_Defaulting(rc, req) ==
    IF ~rh.gvkr.namespaced
    THEN [rc EXCEPT !.err = newStatusError(StatusInternalServerError,
                        "NamespacedResourceContext middleware requires a Namespaced resource")]
    ELSE IF req.namespace = ""
    THEN [rc EXCEPT !.hasNs = TRUE, !.namespace = "p"]
    ELSE [rc EXCEPT !.hasNs = TRUE, !.namespace = req.namespace]

\* namespacedResourceContextMiddleware
namespacedResourceContextMiddleware(rc, req) ==
    IF ~rh.gvkr.namespaced
    THEN [rc EXCEPT !.err = newStatusError(StatusInternalServerError,
                        "NamespacedResourceContext middleware requires a Namespaced resource")]
    ELSE IF req.namespace = ""
    THEN [rc EXCEPT !.err = newStatusError(StatusBadRequest, "namespace parameter is mandatory")]
    ELSE [rc EXCEPT !.hasNs = TRUE, !.namespace = req.namespace]

\* meta.SingletonSpecialName
SingletonSpecialName == "__singleton"

\* The middleware that takes the name from the :name parameter for every
\* kind.
namedResourceContextMiddleware_ParamOnly(rc, req) ==
    IF req.name = ""
    THEN [rc EXCEPT !.err = newStatusError(StatusBadRequest, "name parameter is mandatory")]
    ELSE [rc EXCEPT !.hasName = TRUE, !.name = req.name]

\* namedResourceContextMiddleware.  The routes of newResourceHandler put it
\* in front of get and delete of the kinds that are not singletons.
namedResourceContextMiddleware(rc, req) ==
    IF rh.gvkr.singleton
    THEN [rc EXCEPT !.hasName = TRUE, !.name = SingletonSpecialName]
    ELSE IF req.name = ""
    THEN [rc EXCEPT !.err = newStatusError(StatusBadRequest, "name parameter is mandatory")]
    ELSE [rc EXCEPT !.hasName = TRUE, !.name = req.name]

\* The middlewares of a route applied in order; the first error ends the chain.
RECURSIVE Chain(_, _, _)
Chain(mw, rc, req) ==
    IF mw = <<>> \/ rc.err # NoErr THEN rc
    ELSE LET next == CASE Head(mw) = "resource" -> rc
                       [] Head(mw) = "namespaced" -> namespacedResourceContextMiddleware(rc, req)
                       [] Head(mw) = "named" -> namedResourceContextMiddleware(rc, req)
         IN  Chain(Tail(mw), next, req)

\* resourceContextImpl.KindKey
KindKey == rh.gvkr.kind

\* The key of the name alone, whatever the namespace of the context.
ObjectKey_NameOnly(rc) == NewObjectKey(KindKey, NameIdentifier(rc.name))

\* namedResourceContextImpl.ObjectKey
ObjectKey(rc) ==
    IF rc.hasNs
    THEN NewObjectKey(KindKey, NameNamespaceIdentifier(rc.namespace, rc.name))
    ELSE NewObjectKey(KindKey, NameIdentifier(rc.name))

\* ------------------------------------------------------- the Object Store

EmptyStore == [k \in {} |-> NoObj]

\* Storage.Get on the store content st: the object under the key, or NotFound.
StorageGet(st, key) ==
    IF key \in DOMAIN st
    THEN [err |-> NoErr, obj |-> st[key]]
    ELSE [err |-> RawError(ErrNotFound), obj |-> NoObj]

\* Storage.Create: the key is the one the identifier factory gives the
\* object; AlreadyExists when the key is taken, and nothing is written.
StorageCreate(obj) ==
    LET k == ObjectKeyFor(obj)
    IN  IF ~k.ok THEN [err |-> RawError(ErrNoIdentifier), st |-> store]
        ELSE IF k.key \in DOMAIN store
        THEN [err |-> RawError(ErrAlreadyExists), st |-> store]
        ELSE [err |-> NoErr, st |-> (k.key :> obj) @@ store]

\* Storage.Update: full replace of the record under the object's key.
StorageUpdate(obj) ==
    LET k == ObjectKeyFor(obj)
    IN  IF ~k.ok THEN [err |-> RawError(ErrNoIdentifier), st |-> store]
        ELSE [err |-> NoErr, st |-> (k.key :> obj) @@ store]

\* Storage.Delete: NotFound when the key is absent.
StorageDelete(key) ==
    IF key \in DOMAIN store
    THEN [err |-> NoErr, st |-> [k \in DOMAIN store \ {key} |-> store[k]]]
    ELSE [err |-> RawError(ErrNotFound), st |-> store]

\* The merge of a fragment into a record: the fields the fragment carries
\* (the non-empty ones) replace the record's.
Merge(old, frag) ==
    [ kind      |-> old.kind,
      name      |-> IF frag.name # "" THEN frag.name ELSE old.name,
      namespace |-> IF frag.namespace # "" THEN frag.namespace ELSE old.namespace,
      spec      |-> IF frag.spec # "" THEN frag.spec ELSE old.spec ]

\* Storage.Patch: merges the fragment into the record under the key,
\* starting from an empty record of the key's kind when there is none.
StoragePatch(key, frag) ==
    LET old == IF key \in DOMAIN store THEN store[key]
               ELSE [kind |-> key.kind, name |-> "", namespace |-> "", spec |-> ""]
    IN  [err |-> NoErr, st |-> (key :> Merge(old, frag)) @@ store]

\* A filter that lets every object pass.
namespaceFilter_AcceptAll(namespace, obj) == TRUE

\* namespaceFilter.Filter
namespaceFilter(namespace, obj) == namespace = obj.namespace

\* Storage.List: the objects of a kind that pass every filter.
StorageList(kind, filtered, namespace) ==
    { store[k] : k \in { k \in DOMAIN store :
        /\ k.kind = kind
        /\ (filtered => namespaceFilter(namespace, store[k])) } }

\* --------------------------------------------------------------- hooks

Range(seq) == {seq[i] : i \in 1..Len(seq)}

\* The index of the first hook of the list that returns an error, 0 if none.
FirstFailing(hooks, fails) ==
    IF \E i \in 1..Len(hooks) : hooks[i] \in fails
    THEN CHOOSE i \in 1..Len(hooks) :
            /\ hooks[i] \in fails
            /\ \A j \in 1..(i - 1) : hooks[j] \notin fails
    ELSE 0

\* The loop without its early return: every hook is invoked and the error
\* of the last failing one is returned.
RunHooks_NoReturn(hooks, fails) ==
    LET failing == {i \in 1..Len(hooks) : hooks[i] \in fails}
    IN  [ invoked |-> hooks,
          err |-> IF failing = {} THEN NoErr
                  ELSE HookError(hooks[CHOOSE i \in failing : \A j \in failing : j <= i]) ]

\* The loop with the hooks' errors dropped.
RunHooks_ErrorsDropped(hooks, fails) ==
    [ invoked |-> hooks, err |-> NoErr ]

\* The loop run from the last registered hook to the first.
RunHooks_Reversed(hooks, fails) ==
    LET rev == [i \in 1..Len(hooks) |-> hooks[Len(hooks) + 1 - i]]
        k == FirstFailing(rev, fails)
    IN  IF k = 0
        THEN [invoked |-> rev, err |-> NoErr]
        ELSE [invoked |-> SubSeq(rev, 1, k), err |-> HookError(rev[k])]

\* "Run all hooks in order": the loop of create, update and delete over a
\* hook list, where the hooks of fails return an error when invoked.
RunHooks(hooks, fails) ==
    LET k == FirstFailing(hooks, fails)
    IN  IF k = 0
        THEN [invoked |-> hooks, err |-> NoErr]
        ELSE [invoked |-> SubSeq(hooks, 1, k), err |-> HookError(hooks[k])]

\* ------------------------------------------------------------- handlers

\* The calls a handler makes, in the order it makes them: hooks and store.
HookCall(h) == [hook |-> h, call |-> ""]

StoreCall(c) == [hook |-> 0, call |-> c]

HookCalls(invoked) == [i \in 1..Len(invoked) |-> HookCall(invoked[i])]

\* What a handler did: the error it returned, the response it wrote and,
\* as seen, the object it handed to its hooks and to the store.
Result(err, code, obj, items, trace, warn, key, st) ==
    [ err |-> err, code |-> IF err = NoErr THEN code ELSE ErrorToAPIStatus(err),
      obj |-> obj, items |-> items, trace |-> trace,
      warn |-> warn, key |-> key, st |-> st, seen |-> NoObj ]

\* A handler that returns err and leaves the store as it is.
Failed(err, trace, warn, key) ==
    Result(err, 0, NoObj, {}, trace, warn, key, store)

\* The JSON form of an object and back: the Recorder's ObjectMeta is tagged
\* json:"-", so its name and namespace are neither read nor written.
ThroughJSON(obj) ==
    IF obj.kind = "Recorder"
    THEN [obj EXCEPT !.name = "", !.namespace = ""]
    ELSE obj

\* resourceContextImpl.JSONIndent: the object written, defaulted unless the
\* request's "default" header disables it.
JSONIndent(obj, shouldDefault) ==
    ThroughJSON(IF shouldDefault THEN Default(obj) ELSE obj)

\* validateBody without the check that a namespaced object has a namespace.
validateBody_NamespaceOptional(rc, obj) ==
    LET pruned == ~rh.gvkr.singleton /\ obj.name # ""
                    /\ ~IsNamespaced(TypeOf(obj.kind)) /\ obj.namespace # ""
        o == IF pruned THEN [obj EXCEPT !.namespace = ""] ELSE obj
        msg == IF ~rh.gvkr.singleton /\ obj.name = ""
                 THEN "name must be set"
               ELSE IF rc.hasNs /\ rc.namespace # o.namespace
                 THEN "Object namespace in body doesn't match namespace in path"
               ELSE IF ~ValidateIfPossible(o)
                 THEN "validation error"
               ELSE ""
    IN  [msg |-> msg, obj |-> o, warn |-> pruned]

\* validateBody without the pruning of the namespace of an object that is
\* not namespaced.
validateBody_NoPrune(rc, obj) ==
    LET msg == IF ~rh.gvkr.singleton /\ obj.name = ""
                 THEN "name must be set"
               ELSE IF ~rh.gvkr.singleton /\ IsNamespaced(TypeOf(obj.kind))
                        /\ obj.namespace = ""
                 THEN ".metadata.namespace must be set for namespaced object"
               ELSE IF rc.hasNs /\ rc.namespace # obj.namespace
                 THEN "Object namespace in body doesn't match namespace in path"
               ELSE IF ~ValidateIfPossible(obj)
                 THEN "validation error"
               ELSE ""
    IN  [msg |-> msg, obj |-> obj, warn |-> FALSE]

\* validateBody without the comparison of the body's namespace with the
\* path's.
validateBody_AnyNamespace(rc, obj) ==
    LET pruned == ~rh.gvkr.singleton /\ obj.name # ""
                    /\ ~IsNamespaced(TypeOf(obj.kind)) /\ obj.namespace # ""
        o == IF pruned THEN [obj EXCEPT !.namespace = ""] ELSE obj
        msg == IF ~rh.gvkr.singleton /\ obj.name = ""
                 THEN "name must be set"
               ELSE IF ~rh.gvkr.singleton /\ IsNamespaced(TypeOf(obj.kind))
                        /\ obj.namespace = ""
                 THEN ".metadata.namespace must be set for namespaced object"
               ELSE IF ~ValidateIfPossible(o)
                 THEN "validation error"
               ELSE ""
    IN  [msg |-> msg, obj |-> o, warn |-> pruned]

\* resourceHandlerImpl.validateBody: the error message ("" when valid), the
\* object as validateBody leaves it, and whether a warning was added.
validateBody(rc, obj) ==
    LET pruned == ~rh.gvkr.singleton /\ obj.name # ""
                    /\ ~IsNamespaced(TypeOf(obj.kind)) /\ obj.namespace # ""
        o == IF pruned THEN [obj EXCEPT !.namespace = ""] ELSE obj
        msg == IF ~rh.gvkr.singleton /\ obj.name = ""
                 THEN "name must be set"
               ELSE IF ~rh.gvkr.singleton /\ IsNamespaced(TypeOf(obj.kind))
                        /\ obj.namespace = ""
                 THEN ".metadata.namespace must be set for namespaced object"
               ELSE IF rc.hasNs /\ rc.namespace # o.namespace
                 THEN "Object namespace in body doesn't match namespace in path"
               ELSE IF ~ValidateIfPossible(o)
                 THEN "validation error"
               ELSE ""
    IN  [msg |-> msg, obj |-> o, warn |-> pruned]

\* decodeObject without the call of validateBody.
decodeObject_Unvalidated(rc, body) ==
    IF body = BadBody
    THEN [err |-> newStatusError(StatusBadRequest, "decode error"),
          obj |-> NoObj, warn |-> FALSE]
    ELSE [err |-> NoErr, obj |-> ThroughJSON(body), warn |-> FALSE]

\* resourceHandlerImpl.decodeObject
decodeObject(rc, body) ==
    IF body = BadBody
    THEN [err |-> newStatusError(StatusBadRequest, "decode error"),
          obj |-> NoObj, warn |-> FALSE]
    ELSE LET v == validateBody(rc, ThroughJSON(body))
         IN  IF v.msg # ""
             THEN [err |-> newStatusError(StatusBadRequest, v.msg),
                   obj |-> NoObj, warn |-> v.warn]
             ELSE [err |-> NoErr, obj |-> v.obj, warn |-> v.warn]

\* Every error of Storage.Create reported as an internal error.
createError_Internal(err) ==
    newStatusError(StatusInternalServerError, err.msg)

\* The status error create returns for an error of Storage.Create.
createError(err) ==
    IF err.msg = ErrAlreadyExists
    THEN newStatusError(StatusBadRequest, ErrAlreadyExists)
    ELSE newStatusError(StatusInternalServerError, err.msg)

\* resourceHandlerImpl.create
create(rc, body, fails, shouldDefault) ==
    LET d == decodeObject(rc, body)
        h == RunHooks(rh.postHooks, fails)
        c == StorageCreate(d.obj)
        t == HookCalls(h.invoked)
        r == IF h.err # NoErr THEN Failed(h.err, t, d.warn, NoKey)
             ELSE IF c.err # NoErr
             THEN Failed(createError(c.err), Append(t, StoreCall("Create")), d.warn, NoKey)
             ELSE Result(NoErr, StatusCreated, JSONIndent(d.obj, shouldDefault), {},
                         Append(t, StoreCall("Create")), d.warn, NoKey, c.st)
    IN  IF d.err # NoErr THEN Failed(d.err, <<>>, d.warn, NoKey)
        ELSE [r EXCEPT !.seen = d.obj]

\* resourceHandlerImpl.update
update(rc, body, fails, shouldDefault) ==
    LET d == decodeObject(rc, body)
        h == RunHooks(rh.putHooks, fails)
        u == StorageUpdate(d.obj)
        t == HookCalls(h.invoked)
        r == IF h.err # NoErr THEN Failed(h.err, t, d.warn, NoKey)
             ELSE IF u.err # NoErr
             THEN Failed(u.err, Append(t, StoreCall("Update")), d.warn, NoKey)
             ELSE Result(NoErr, StatusOK, JSONIndent(d.obj, shouldDefault), {},
                         Append(t, StoreCall("Update")), d.warn, NoKey, u.st)
    IN  IF d.err # NoErr THEN Failed(d.err, <<>>, d.warn, NoKey)
        ELSE [r EXCEPT !.seen = d.obj]

\* returnFromStorage that returns the store's NotFound as it is.
returnFromStorage_RawNotFound(key, shouldDefault, trace, st) ==
    LET g == StorageGet(st, key)
        t == Append(trace, StoreCall("Get"))
    IN  IF g.err = NoErr
        THEN Result(NoErr, StatusOK, JSONIndent(g.obj, shouldDefault), {},
                    t, FALSE, key, st)
        ELSE Result(g.err, 0, NoObj, {}, t, FALSE, key, st)

\* resourceHandlerImpl.returnFromStorage, after the calls of trace left the
\* store as st.
returnFromStorage(key, shouldDefault, trace, st) ==
    LET g == StorageGet(st, key)
        t == Append(trace, StoreCall("Get"))
    IN  IF g.err = NoErr
        THEN Result(NoErr, StatusOK, JSONIndent(g.obj, shouldDefault), {},
                    t, FALSE, key, st)
        ELSE IF g.err.msg = ErrNotFound
        THEN Result(newStatusError(StatusNotFound, ErrNotFound), 0, NoObj, {},
                    t, FALSE, key, st)
        ELSE Result(g.err, 0, NoObj, {}, t, FALSE, key, st)

\* resourceHandlerImpl.get
get(rc, shouldDefault) == returnFromStorage(ObjectKey(rc), shouldDefault, <<>>, store)

\* resourceHandlerImpl.getSingleton
getSingleton(rc, shouldDefault) ==
    returnFromStorage(SingletonKey(KindKey), shouldDefault, <<>>, store)

\* resourceHandlerImpl.list
list(rc, shouldDefault) ==
    LET l == StorageList(KindKey, rc.hasNs, rc.namespace)
    IN  Result(NoErr, StatusOK, NoObj, {JSONIndent(o, shouldDefault) : o \in l},
               <<StoreCall("List")>>, FALSE, NoKey, store)

\* delete with the store called before the hooks.
delete_StoreFirst(rc, fails) ==
    LET h == RunHooks(rh.deleteHooks, fails)
        d == StorageDelete(ObjectKey(rc))
        t == <<StoreCall("Delete")>> \o HookCalls(h.invoked)
    IN  IF d.err # NoErr
        THEN Failed(d.err, <<StoreCall("Delete")>>, FALSE, ObjectKey(rc))
        ELSE IF h.err # NoErr
        THEN Result(h.err, 0, NoObj, {}, t, FALSE, ObjectKey(rc), d.st)
        ELSE Result(NoErr, StatusNoContent, NoObj, {}, t, FALSE, ObjectKey(rc), d.st)

\* resourceHandlerImpl.delete
delete(rc, fails) ==
    LET h == RunHooks(rh.deleteHooks, fails)
        d == StorageDelete(ObjectKey(rc))
        t == HookCalls(h.invoked)
    IN  IF h.err # NoErr THEN Failed(h.err, t, FALSE, ObjectKey(rc))
        ELSE IF d.err # NoErr
        THEN Failed(d.err, Append(t, StoreCall("Delete")), FALSE, ObjectKey(rc))
        ELSE Result(NoErr, StatusNoContent, NoObj, {},
                    Append(t, StoreCall("Delete")), FALSE, ObjectKey(rc), d.st)

\* A body that decodes to two partial objects.
MultiBody == [kind |-> "?2", name |-> "", namespace |-> "", spec |-> ""]

\* The number of partial objects a PATCH body decodes to: none for a body
\* that does not decode, two for MultiBody, one for a fragment.
Frames(body) ==
    IF body = BadBody THEN 0 ELSE IF body = MultiBody THEN 2 ELSE 1

\* DecodePartialObjects accepting any number of partial objects and handing
\* the body on as the first of them.
DecodePartialObjects_AllowMultiple(body) ==
    [err |-> "", objs |-> <<body>>]

\* storage.DecodePartialObjects without allowMultiple: the number of
\* partial objects the body holds must be one.
DecodePartialObjects(body) ==
    IF body \in {BadBody, MultiBody}
    THEN [err |-> "couldn't decode patch", objs |-> <<>>]
    ELSE [err |-> "", objs |-> <<body>>]

\* A partial object that never reports a singleton.
customPartialObject_NotSingleton(gvkr) ==
    [ nsCap   |-> IF gvkr.namespaced THEN "true" ELSE "false",
      singCap |-> "false" ]

\* customPartialObject: the capabilities the wrapped partial object reports
\* are the handler's own flags.
customPartialObject(gvkr) ==
    [ nsCap   |-> IF gvkr.namespaced THEN "true" ELSE "false",
      singCap |-> IF gvkr.singleton THEN "true" ELSE "false" ]

\* The key of the partial object by the capabilities of its own kind.
PatchKeyFor_Trusting(po) == ObjectKeyFor(po)

\* Storage.ObjectKeyFor on the wrapped partial object of a patch.
PatchKeyFor(po) ==
    LET i == Identify(customPartialObject(rh.gvkr), po.name, po.namespace)
    IN  [ok |-> i.ok, key |-> NewObjectKey(po.kind, i.id)]

\* resourceHandlerImpl.patch
patch(rc, body, shouldDefault) ==
    LET d == DecodePartialObjects(body)
        k == PatchKeyFor(d.objs[1])
        p == StoragePatch(k.key, d.objs[1])
    IN  IF d.err # ""
        THEN Failed(newStatusError(StatusBadRequest, d.err), <<>>, FALSE, NoKey)
        ELSE IF ~k.ok
        THEN Failed(RawError(ErrNoIdentifier), <<>>, FALSE, NoKey)
        ELSE IF p.err # NoErr
        THEN Failed(p.err, <<StoreCall("Patch")>>, FALSE, k.key)
        ELSE returnFromStorage(k.key, shouldDefault, <<StoreCall("Patch")>>, p.st)

\* -------------------------------------------------------------- requests

NoResp ==
    [ req |-> NoReq, body |-> NoObj, op |-> "", handled |-> FALSE,
      fails |-> {}, err |-> NoErr, code |-> 0, obj |-> NoObj, items |-> {},
      trace |-> <<>>, warn |-> FALSE, key |-> NoKey, seen |-> NoObj ]

\* What the clients of a specification send: the names and namespaces of
\* path parameters and bodies, the payloads, and the kinds of the bodies
\* sent to the handler of kind k.
FullU ==
    [ names |-> Names, namespaces |-> Namespaces, specs |-> Specs,
      kinds |-> [k \in Kinds |-> {k}] ]

\* The requests on a path: a verb, the path and the values of the path's
\* parameters (echo's Param returns "" for a parameter the path lacks).
Requests(U, verb, path) ==
    { [verb |-> verb, path |-> path, namespace |-> ns, name |-> n] :
        ns \in (IF HasNamespaceParam(rh.gvkr, path) THEN U.namespaces ELSE {""}),
        n \in (IF HasNameParam(rh.gvkr, path) THEN U.names ELSE {""}) }

\* The bodies a client may send where an object is expected.
Bodies(U) ==
    [kind : U.kinds[rh.gvkr.kind], name : U.names, namespace : U.namespaces,
     spec : U.specs] \cup {BadBody}

\* The bodies a client may send with a PATCH.
PatchBodies(U) == Bodies(U) \cup {MultiBody}

\* The values of the request's "default" header that make a difference:
\* only the Recorder has a defaulting function.
ShouldDefault(U) == IF "Recorder" \in U.kinds[rh.gvkr.kind] THEN BOOLEAN ELSE {TRUE}

\* The routes of a handler method.
RoutesOf(handler) == {r \in routes : r.handler = handler}

\* A middleware of the route returned an error: the handler is not invoked.
Reject(req, body, fails, handler, rc) ==
    /\ resp' = [NoResp EXCEPT !.req = req, !.body = body, !.op = handler,
                    !.fails = fails,
                    !.err = rc.err, !.code = ErrorToAPIStatus(rc.err)]
    /\ UNCHANGED <<phase, rh, routes, store, nextHook, registryVars, converterVars, inflight>>

\* A handler that forgets its POST hooks once it has answered.
Respond_DropsHooks(req, body, fails, handler, res) ==
    /\ Cardinality(DOMAIN res.st) <= MaxStore
    /\ store' = res.st
    /\ resp' = [ req |-> req, body |-> body, op |-> handler, handled |-> TRUE,
                 fails |-> fails, err |-> res.err, code |-> res.code,
                 obj |-> res.obj, items |-> res.items, trace |-> res.trace,
                 warn |-> res.warn, key |-> res.key, seen |-> res.seen ]
    /\ rh' = [rh EXCEPT !.postHooks = <<>>]
    /\ UNCHANGED <<phase, routes, nextHook, registryVars, converterVars, inflight>>

\* The handler ran and left res.
Respond(req, body, fails, handler, res) ==
    /\ Cardinality(DOMAIN res.st) <= MaxStore
    /\ store' = res.st
    /\ resp' = [ req |-> req, body |-> body, op |-> handler, handled |-> TRUE,
                 fails |-> fails, err |-> res.err, code |-> res.code,
                 obj |-> res.obj, items |-> res.items, trace |-> res.trace,
                 warn |-> res.warn, key |-> res.key, seen |-> res.seen ]
    /\ UNCHANGED <<phase, rh, routes, nextHook, registryVars, converterVars, inflight>>

\* The context chain in front of the handler of route r.
Context(r, req) == Chain(r.mw, ResourceContext, req)

\* POST on a route of create.
CreateOn(U) ==
    /\ phase = "serving"
    /\ \E r \in RoutesOf("create") :
       \E req \in Requests(U, r.verb, r.path), body \in Bodies(U),
          fails \in SUBSET Range(rh.postHooks), shouldDefault \in ShouldDefault(U) :
            LET rc == Context(r, req)
            IN  IF rc.err # NoErr THEN Reject(req, body, fails, "create", rc)
                ELSE Respond(req, body, fails, "create",
                             create(rc, body, fails, shouldDefault))

\* PUT on a route of update.
UpdateOn(U) ==
    /\ phase = "serving"
    /\ \E r \in RoutesOf("update") :
       \E req \in Requests(U, r.verb, r.path), body \in Bodies(U),
          fails \in SUBSET Range(rh.putHooks), shouldDefault \in ShouldDefault(U) :
            LET rc == Context(r, req)
            IN  IF rc.err # NoErr THEN Reject(req, body, fails, "update", rc)
                ELSE Respond(req, body, fails, "update",
                             update(rc, body, fails, shouldDefault))

\* PATCH on a route of patch.
PatchOn(U) ==
    /\ phase = "serving"
    /\ \E r \in RoutesOf("patch") :
       \E req \in Requests(U, r.verb, r.path), body \in PatchBodies(U),
          shouldDefault \in ShouldDefault(U) :
            LET rc == Context(r, req)
            IN  IF rc.err # NoErr THEN Reject(req, body, {}, "patch", rc)
                ELSE Respond(req, body, {}, "patch", patch(rc, body, shouldDefault))

\* GET on a route of get.
GetOn(U) ==
    /\ phase = "serving"
    /\ \E r \in RoutesOf("get") :
       \E req \in Requests(U, r.verb, r.path), shouldDefault \in ShouldDefault(U) :
            LET rc == Context(r, req)
            IN  IF rc.err # NoErr THEN Reject(req, NoObj, {}, "get", rc)
                ELSE Respond(req, NoObj, {}, "get", get(rc, shouldDefault))

\* GET on the route of getSingleton.
GetSingletonOn(U) ==
    /\ phase = "serving"
    /\ \E r \in RoutesOf("getSingleton") :
       \E req \in Requests(U, r.verb, r.path), shouldDefault \in ShouldDefault(U) :
            LET rc == Context(r, req)
            IN  IF rc.err # NoErr THEN Reject(req, NoObj, {}, "getSingleton", rc)
                ELSE Respond(req, NoObj, {}, "getSingleton",
                             getSingleton(rc, shouldDefault))

\* GET on a route of list.
ListOn(U) ==
    /\ phase = "serving"
    /\ \E r \in RoutesOf("list") :
       \E req \in Requests(U, r.verb, r.path), shouldDefault \in ShouldDefault(U) :
            LET rc == Context(r, req)
            IN  IF rc.err # NoErr THEN Reject(req, NoObj, {}, "list", rc)
                ELSE Respond(req, NoObj, {}, "list", list(rc, shouldDefault))

\* DELETE on a route of delete.
DeleteOn(U) ==
    /\ phase = "serving"
    /\ \E r \in RoutesOf("delete") :
       \E req \in Requests(U, r.verb, r.path), fails \in SUBSET Range(rh.deleteHooks) :
            LET rc == Context(r, req)
            IN  IF rc.err # NoErr THEN Reject(req, NoObj, fails, "delete", rc)
                ELSE Respond(req, NoObj, fails, "delete", delete(rc, fails))

\* A request on a (verb, path) newResourceHandler registered no route for:
\* no method of the handler runs and the answer is the router's.
NoRouteOn(U) ==
    /\ phase = "serving"
    /\ \E verb \in Verbs, path \in Paths(rh.gvkr) :
        /\ \A r \in routes : ~(r.verb = verb /\ r.path = path)
        /\ resp' = [NoResp EXCEPT !.req = [NoReq EXCEPT !.verb = verb, !.path = path]]
    /\ UNCHANGED <<phase, rh, routes, store, nextHook, registryVars, converterVars, inflight>>

Create == CreateOn(FullU)
Update == UpdateOn(FullU)
Patch == PatchOn(FullU)
Get == GetOn(FullU)
GetSingleton == GetSingletonOn(FullU)
List == ListOn(FullU)
Delete == DeleteOn(FullU)
NoRoute == NoRouteOn(FullU)

\* ---------------------------------------------------------------- startup

\* RegisterPOSTHook
RegisterPOSTHook ==
    /\ phase = "startup"
    /\ nextHook < MaxHooks
    /\ nextHook' = nextHook + 1
    /\ rh' = [rh EXCEPT !.postHooks = Append(@, nextHook + 1)]
    /\ UNCHANGED <<phase, routes, store, resp, registryVars, converterVars, inflight>>

\* RegisterPUTHook
RegisterPUTHook ==
    /\ phase = "startup"
    /\ nextHook < MaxHooks
    /\ nextHook' = nextHook + 1
    /\ rh' = [rh EXCEPT !.putHooks = Append(@, nextHook + 1)]
    /\ UNCHANGED <<phase, routes, store, resp, registryVars, converterVars, inflight>>

\* RegisterDELETEHook
RegisterDELETEHook ==
    /\ phase = "startup"
    /\ nextHook < MaxHooks
    /\ nextHook' = nextHook + 1
    /\ rh' = [rh EXCEPT !.deleteHooks = Append(@, nextHook + 1)]
    /\ UNCHANGED <<phase, routes, store, resp, registryVars, converterVars, inflight>>

\* RESTServer.ListenBlocking: the routes are built, requests are served.
ListenBlocking ==
    /\ phase = "startup"
    /\ phase' = "serving"
    /\ UNCHANGED <<rh, routes, store, nextHook, resp, registryVars, converterVars, inflight>>

\* The stores a server is built over, as far as the records of one kind go:
\* an empty storage, or the storage after start() of cmd/digitized, which
\* creates the Recorder with the action None.
InitialStores(kind) ==
    {EmptyStore} \cup
    (IF kind = "Recorder"
     THEN {SingletonKey(kind) :>
              [kind |-> kind, name |-> "", namespace |-> "", spec |-> "None"]}
     ELSE {})

\* No converter runs beside the server.
NoConfig ==
    [ PerVideo |-> 0, FromVideo |-> 0, FromDuration |-> 0, ToVideo |-> 0,
      ToDuration |-> 0, ClipCount |-> 0 ]

\* No patch is between its two store calls.
NoPatch ==
    [ active |-> FALSE, req |-> NoReq, body |-> NoObj, key |-> NoKey,
      shouldDefault |-> FALSE, patched |-> NoObj ]

\* The handler newGroupVersionHandler builds for one type of the scheme.
Init ==
    /\ phase = "startup"
    /\ \E t \in KnownTypes :
        /\ rh = [gvkr |-> GVKR(t), postHooks |-> <<>>, putHooks |-> <<>>,
                 deleteHooks |-> <<>>]
        /\ routes = newResourceHandler(GVKR(t))
        /\ store \in InitialStores(t.kind)
    /\ nextHook = 0
    /\ resp = NoResp
    /\ args = ProgramArgs
    /\ agh = NewAPIGroupsHandler(args.scheme, args.ignoredGroups, args.ignoredKinds)
    /\ found = NoLookup
    /\ cfg = NoConfig
    /\ videoIndex = 0
    /\ w = <<>>
    /\ inflight = NoPatch

\* The clients of the handlers with hooks: fewer names, one payload.
HookU ==
    [ names |-> {"", "001-002"}, namespaces |-> {"", "p"}, specs |-> {"None"},
      kinds |-> [k \in Kinds |-> {k}] ]

CreateH == CreateOn(HookU)
UpdateH == UpdateOn(HookU)
PatchH == PatchOn(HookU)
GetH == GetOn(HookU)
GetSingletonH == GetSingletonOn(HookU)
ListH == ListOn(HookU)
DeleteH == DeleteOn(HookU)
NoRouteH == NoRouteOn(HookU)

\* Requests of every name and namespace on a handler without hooks.
Next ==
    \/ ListenBlocking
    \/ Create
    \/ Update
    \/ Patch
    \/ Get
    \/ GetSingleton
    \/ List
    \/ Delete
    \/ NoRoute

Spec == Init /\ [][Next]_vars

\* The clients that send bodies of every kind of the scheme to one handler.
KindU ==
    [ names |-> {"", "001-002"}, namespaces |-> {"", "p"}, specs |-> {"None"},
      kinds |-> [k \in Kinds |-> Kinds] ]

CreateK == CreateOn(KindU)
UpdateK == UpdateOn(KindU)
PatchK == PatchOn(KindU)
GetK == GetOn(KindU)
GetSingletonK == GetSingletonOn(KindU)
ListK == ListOn(KindU)
DeleteK == DeleteOn(KindU)
NoRouteK == NoRouteOn(KindU)

\* Requests with bodies of any kind on a handler without hooks.
NextKinds ==
    \/ ListenBlocking
    \/ CreateK
    \/ UpdateK
    \/ PatchK
    \/ GetK
    \/ GetSingletonK
    \/ ListK
    \/ DeleteK
    \/ NoRouteK

SpecKinds == Init /\ [][NextKinds]_vars

\* Requests on a handler on which up to MaxHooks hooks were registered.
NextHooks ==
    \/ RegisterPOSTHook
    \/ RegisterPUTHook
    \/ RegisterDELETEHook
    \/ ListenBlocking
    \/ CreateH
    \/ UpdateH
    \/ PatchH
    \/ GetH
    \/ GetSingletonH
    \/ ListH
    \/ DeleteH
    \/ NoRouteH

SpecHooks == Init /\ [][NextHooks]_vars

\* --------------------------------- writes on handlers with hooks

\* Bodies with no name, a name that every kind accepts and a name that
\* Clip.Validate() refuses, with and without a recorder action.
ValidateU ==
    [ names |-> {"", "002", "001-002"}, namespaces |-> {"", "p"},
      specs |-> {"", "None"}, kinds |-> [k \in Kinds |-> {k}] ]

CreateV == CreateOn(ValidateU)
UpdateV == UpdateOn(ValidateU)

\* POST and PUT requests on a handler on which POST and PUT hooks were
\* registered.
NextWrites ==
    \/ RegisterPOSTHook
    \/ RegisterPUTHook
    \/ ListenBlocking
    \/ CreateV
    \/ UpdateV

SpecWrites == Init /\ [][NextWrites]_vars

\* ------------------------------------- patch beside concurrent requests

\* resourceHandlerImpl.patch up to and including Storage().Patch: the error
\* it returns with, or the key and the store the call left.
patchStore(body) ==
    LET d == DecodePartialObjects(body)
        k == PatchKeyFor(d.objs[1])
        p == StoragePatch(k.key, d.objs[1])
    IN  IF d.err # ""
        THEN [err |-> newStatusError(StatusBadRequest, d.err), trace |-> <<>>,
              key |-> NoKey, st |-> store]
        ELSE IF ~k.ok
        THEN [err |-> RawError(ErrNoIdentifier), trace |-> <<>>, key |-> NoKey,
              st |-> store]
        ELSE IF p.err # NoErr
        THEN [err |-> p.err, trace |-> <<StoreCall("Patch")>>, key |-> k.key,
              st |-> store]
        ELSE [err |-> NoErr, trace |-> <<StoreCall("Patch")>>, key |-> k.key,
              st |-> p.st]

\* A patch that answers with the object its own store patch left.
patchReturn_OwnResult(p) ==
    Result(NoErr, StatusOK, JSONIndent(p.patched, p.shouldDefault), {},
           <<StoreCall("Patch"), StoreCall("Get")>>, FALSE, p.key, store)

\* resourceHandlerImpl.patch from returnFromStorage on: the re-read of the
\* key in the store as it is when the call is made.
patchReturn(p) ==
    returnFromStorage(p.key, p.shouldDefault, <<StoreCall("Patch")>>, store)

\* A PATCH runs up to its store patch; it returns here when a middleware,
\* the decoding, the key or the store fails.
PatchStore ==
    /\ phase = "serving"
    /\ ~inflight.active
    /\ \E r \in RoutesOf("patch") :
       \E req \in Requests(HookU, r.verb, r.path), body \in PatchBodies(HookU),
          shouldDefault \in ShouldDefault(HookU) :
            LET rc == Context(r, req)
                ps == patchStore(body)
            IN  IF rc.err # NoErr THEN Reject(req, body, {}, "patch", rc)
                ELSE IF ps.err # NoErr
                THEN Respond(req, body, {}, "patch",
                             Failed(ps.err, ps.trace, FALSE, ps.key))
                ELSE /\ Cardinality(DOMAIN ps.st) <= MaxStore
                     /\ store' = ps.st
                     /\ inflight' = [ active |-> TRUE, req |-> req, body |-> body,
                                      key |-> ps.key, shouldDefault |-> shouldDefault,
                                      patched |-> ps.st[ps.key] ]
                     /\ UNCHANGED <<phase, rh, routes, nextHook, resp, registryVars,
                                    converterVars>>

\* The PATCH in flight re-reads its key and answers.
PatchReturn ==
    /\ phase = "serving"
    /\ inflight.active
    /\ LET res == patchReturn(inflight)
       IN  resp' = [ req |-> inflight.req, body |-> inflight.body, op |-> "patch",
                     handled |-> TRUE, fails |-> {}, err |-> res.err,
                     code |-> res.code, obj |-> res.obj, items |-> res.items,
                     trace |-> res.trace, warn |-> res.warn, key |-> res.key,
                     seen |-> res.seen ]
    /\ inflight' = NoPatch
    /\ UNCHANGED <<phase, rh, routes, store, nextHook, registryVars, converterVars>>

\* The requests of other clients are served while a PATCH is in flight.
NextConcurrent ==
    \/ ListenBlocking
    \/ PatchStore
    \/ PatchReturn
    \/ CreateH
    \/ UpdateH
    \/ GetH
    \/ GetSingletonH
    \/ ListH
    \/ DeleteH

SpecConcurrent == Init /\ [][NextConcurrent]_vars

\* ---------------------------------------------- the registry on its own

\* The group-versions and kinds a caller may look up: those of the scheme
\* and one of each the scheme does not know.
LookupGroupVersions == {V1alpha1, Unversioned, "digitized.luxaslabs.com/v1beta1"}

LookupKinds == {t.kind : t \in SchemeTypes} \cup {"Unknown"}

\* The ignored sets NewAPIGroupsHandler may be given.
IgnorableGroups == {V1alpha1, Unversioned}

IgnorableKinds ==
    { <<V1alpha1, "Config">>, <<V1alpha1, "MergeCassetteAction">>,
      <<V1alpha1, "List">>, <<V1alpha1, "Clip">>, <<Unversioned, "Clip">> }

\* The registry NewAPIGroupsHandler built from the scheme and the ignored
\* sets it was given; no server is listening and no converter runs.
InitRegistry ==
    /\ phase = "registry"
    /\ rh = NoHandler
    /\ routes = {}
    /\ store = EmptyStore
    /\ nextHook = 0
    /\ resp = NoResp
    /\ \E ig \in SUBSET IgnorableGroups, ik \in SUBSET IgnorableKinds :
         args = [scheme |-> SchemeTypes, ignoredGroups |-> ig, ignoredKinds |-> ik]
    /\ agh = NewAPIGroupsHandler(args.scheme, args.ignoredGroups, args.ignoredKinds)
    /\ found = NoLookup
    /\ cfg = NoConfig
    /\ videoIndex = 0
    /\ w = <<>>
    /\ inflight = NoPatch

\* A call of APIGroups().GroupVersion(gv).
LookupGroupVersion ==
    /\ phase = "registry"
    /\ \E gv \in LookupGroupVersions : found' = GroupVersion(gv)
    /\ UNCHANGED <<phase, rh, routes, store, nextHook, resp, args, agh,
                   converterVars, inflight>>

\* A call of Kind(kind) on a group-version handler GroupVersion returned.
LookupKind ==
    /\ phase = "registry"
    /\ \E gv \in LookupGroupVersions, kind \in LookupKinds :
        /\ GroupVersion(gv).ok
        /\ found' = Kind(gv, kind)
    /\ UNCHANGED <<phase, rh, routes, store, nextHook, resp, args, agh,
                   converterVars, inflight>>

NextRegistry ==
    \/ LookupGroupVersion
    \/ LookupKind

SpecRegistry == InitRegistry /\ [][NextRegistry]_vars

\* --------------------------------------------- the named layer on its own

\* The handler of one type of the scheme, with no request served yet.
InitLayer ==
    /\ phase = "layer"
    /\ \E t \in KnownTypes :
        /\ rh = NewHandler(GVKR(t))
        /\ routes = newResourceHandler(GVKR(t))
    /\ store = EmptyStore
    /\ nextHook = 0
    /\ resp = NoResp
    /\ args = ProgramArgs
    /\ agh = NewAPIGroupsHandler(args.scheme, args.ignoredGroups, args.ignoredKinds)
    /\ found = NoLookup
    /\ cfg = NoConfig
    /\ videoIndex = 0
    /\ w = <<>>
    /\ inflight = NoPatch

\* A request passes namedResourceContextMiddleware, inside the group of the
\* kind or inside its /namespaces/:namespace group, on its way to next; the
\* response records whether next was called and the ObjectKey of the
\* context it was given.
NamedLayer ==
    /\ phase = "layer"
    /\ \E verb \in {"GET", "PATCH", "DELETE"}, enclosing \in BOOLEAN,
          name \in Names :
       \E ns \in (IF enclosing THEN Namespaces ELSE {""}) :
         LET base == IF enclosing THEN NamespacedPath(rh.gvkr)
                     ELSE ResourcePath(rh.gvkr)
             req  == [verb |-> verb, path |-> base \o nameParamPath,
                      namespace |-> ns, name |-> name]
             mw   == IF enclosing THEN <<"resource", "namespaced", "named">>
                     ELSE <<"resource", "named">>
             rc   == Chain(mw, ResourceContext, req)
         IN  resp' = [NoResp EXCEPT
                        !.req = req, !.op = "next",
                        !.handled = (rc.err = NoErr),
                        !.err = rc.err,
                        !.code = IF rc.err = NoErr THEN 0 ELSE ErrorToAPIStatus(rc.err),
                        !.key = IF rc.err = NoErr THEN ObjectKey(rc) ELSE NoKey]
    /\ UNCHANGED <<phase, rh, routes, store, nextHook, registryVars, converterVars,
                   inflight>>

NextLayer == NamedLayer

SpecLayer == InitLayer /\ [][NextLayer]_vars

\* ------------------------------------------------------- the converter

\* The lines makeVideoConfig writes.
FileLine(j) == [kind |-> "file", n |-> j, mins |-> 0, secs |-> 0]

\* "inpoint 00:MM:SS" / "outpoint 00:MM:SS" for a duration in seconds.
PointLine(kind, seconds) ==
    [kind |-> kind, n |-> 0, mins |-> seconds \div 60,
     secs |-> seconds - (seconds \div 60) * 60]

BlankLine == [kind |-> "", n |-> 0, mins |-> 0, secs |-> 0]

\* The durations of the -from and -to timestamps, in seconds.
Durations == {10, 570}

\* start: the number of output videos, the ceiling of ClipCount / PerVideo.
videoCount(conf) == (conf.ClipCount + conf.PerVideo - 1) \div conf.PerVideo

\* makeVideoConfig: the loop from iteration i on.
RECURSIVE makeVideoConfigFrom(_, _, _)
makeVideoConfigFrom(conf, index, i) ==
    IF ~(i < conf.PerVideo) THEN <<>>
    ELSE LET j     == index * conf.PerVideo + i
             point == IF j = 0
                      THEN <<PointLine("inpoint", conf.FromDuration)>>
                      ELSE IF j = conf.ToVideo
                      THEN <<PointLine("outpoint", conf.ToDuration)>>
                      ELSE <<>>
         IN  IF i = conf.PerVideo - 1 \/ j = conf.ToVideo
             THEN <<FileLine(j)>> \o point
             ELSE <<FileLine(j)>> \o point \o <<BlankLine>>
                    \o makeVideoConfigFrom(conf, index, i + 1)

\* makeVideoConfig
makeVideoConfig(conf, index) == makeVideoConfigFrom(conf, index, 0)

\* The converter after its flags were parsed into -from, -to and -n, with
\* -to not before -from; no server runs.
InitConverter ==
    /\ phase = "flags"
    /\ rh = NoHandler
    /\ routes = {}
    /\ store = EmptyStore
    /\ nextHook = 0
    /\ resp = NoResp
    /\ args = ProgramArgs
    /\ agh = NewAPIGroupsHandler(args.scheme, args.ignoredGroups, args.ignoredKinds)
    /\ found = NoLookup
    /\ \E from \in 0..MaxClip, fd \in Durations, td \in Durations,
          n \in 0..(MaxClip + 1) :
        \E to \in from..MaxClip :
            cfg = [ PerVideo |-> n, FromVideo |-> from, FromDuration |-> fd,
                    ToVideo |-> to, ToDuration |-> td, ClipCount |-> 0 ]
    /\ videoIndex = 0
    /\ w = <<>>
    /\ inflight = NoPatch

\* Config.Complete
Complete ==
    /\ phase = "flags"
    /\ LET count == cfg.ToVideo - cfg.FromVideo + 1
       IN  IF cfg.PerVideo = 0
           THEN /\ cfg' = [cfg EXCEPT !.ClipCount = count, !.PerVideo = count]
                /\ phase' = "converting"
           ELSE IF count < cfg.PerVideo
           THEN /\ cfg' = [cfg EXCEPT !.ClipCount = count]
                /\ phase' = "usage"
           ELSE /\ cfg' = [cfg EXCEPT !.ClipCount = count]
                /\ phase' = "converting"
    /\ UNCHANGED <<rh, routes, store, nextHook, resp, registryVars, videoIndex, w,
                   inflight>>

\* One round of the loop of start: the configuration file of output video
\* videoIndex is written.
MakeVideoConfig ==
    /\ phase = "converting"
    /\ videoIndex < videoCount(cfg)
    /\ w' = makeVideoConfig(cfg, videoIndex)
    /\ videoIndex' = videoIndex + 1
    /\ UNCHANGED <<phase, rh, routes, store, nextHook, resp, registryVars, cfg,
                   inflight>>

NextConverter ==
    \/ Complete
    \/ MakeVideoConfig

SpecConverter == InitConverter /\ [][NextConverter]_vars

\* ================================================================ claims

\* --------------------------------------------------------------------- C1

\* C1: for a namespaced, non-singleton kind the identity is a function of
\* (namespace, name) from which the pair can be recovered: a GET addressed
\* by a namespace and a name that finds a record finds the object of that
\* namespace and that name, never the object of another pair.
C1_PairRecoverable ==
    (/\ rh.gvkr.namespaced /\ ~rh.gvkr.singleton
     /\ resp.op = "get" /\ resp.handled /\ resp.code = StatusOK)
        => /\ resp.obj.namespace = resp.req.namespace
           /\ resp.obj.name = resp.req.name

\* --------------------------------------------------------------------- C2

\* C2: on the handler of a singleton kind every record of the store is under
\* the key of the fixed sentinel, and every get and every patch that reaches
\* the store addresses that key, whatever name and namespace the request or
\* the object supplies.
C2_SingletonKey ==
    rh.gvkr.singleton =>
        /\ \A k \in DOMAIN store : k = SingletonKey(KindKey)
        /\ (resp.handled /\ resp.op \in {"getSingleton", "patch"} /\ resp.trace # <<>>)
              => resp.key = NewObjectKey(KindKey, SingletonIdentifierKey)

\* A patch whose fragment names an object and a namespace was applied to the
\* record of the sentinel.
C2_Witness ==
    /\ rh.gvkr.singleton
    /\ resp.op = "patch" /\ resp.handled /\ resp.code = StatusOK
    /\ resp.body.name = "002" /\ resp.body.namespace = "p"
    /\ resp.key = SingletonKey(KindKey)
    /\ DOMAIN store = {SingletonKey(KindKey)}

\* --------------------------------------------------------------------- C3

\* C3: for a cluster-scoped, non-singleton kind the identifier of an object
\* is its name and an object with an empty name has no identifier, on the
\* patch path as on every other: a patch whose fragment has an empty name
\* reaches no record, a patch whose fragment has a name addresses that name.
C3_ClusterScopedIdentity ==
    (/\ ~rh.gvkr.namespaced /\ ~rh.gvkr.singleton
     /\ resp.op = "patch" /\ resp.handled /\ resp.body \notin {BadBody, MultiBody})
        => IF resp.body.name = ""
           THEN resp.err # NoErr /\ resp.trace = <<>>
           ELSE resp.key = NewObjectKey(KindKey, resp.body.name)

\* --------------------------------------------------------------------- C4

\* C4: registering a hook only appends to its list, and a handler runs the
\* hooks of its list in registration order before it calls the store: the
\* hooks invoked are a prefix of the list, a hook that returns an error is
\* the last call the handler makes and its error is the error the handler
\* returns, and the store is called only after every hook of the list.
C4_HooksInOrder ==
    [][ LET Lists(h) == <<h.postHooks, h.putHooks, h.deleteHooks>>
            ListOf(h, op) == CASE op = "create" -> h.postHooks
                               [] op = "update" -> h.putHooks
                               [] op = "delete" -> h.deleteHooks
            IsPrefix(a, b) == Len(a) <= Len(b) /\ SubSeq(b, 1, Len(a)) = a
            InOrder(r, h) ==
                LET hl == ListOf(h, r.op)
                    inv == SelectSeq(r.trace, LAMBDA c : c.hook # 0)
                    n == Len(inv)
                IN  /\ IsPrefix(inv, HookCalls(hl))
                    /\ SubSeq(r.trace, 1, n) = inv
                    /\ \A i \in 1..n : hl[i] \in r.fails =>
                            /\ Len(r.trace) = i
                            /\ r.err = HookError(hl[i])
                    /\ r.err.type = "hook" => n > 0 /\ hl[n] \in r.fails
                    /\ Len(r.trace) > n => n = Len(hl)
        IN  /\ \A i \in 1..3 : IsPrefix(Lists(rh)[i], Lists(rh')[i])
            /\ (resp'.handled /\ resp'.op \in {"create", "update", "delete"})
                    => InOrder(resp', rh') ]_vars

\* An update on a handler with two update hooks that both return an error:
\* only the first was invoked and its error came back.
C4_Witness ==
    /\ resp.op = "update" /\ resp.handled
    /\ Len(rh.putHooks) = 2
    /\ resp.fails = {rh.putHooks[1], rh.putHooks[2]}
    /\ resp.trace = <<HookCall(rh.putHooks[1])>>
    /\ resp.err = HookError(rh.putHooks[1])

\* --------------------------------------------------------------------- C5

\* C5: when a hook invoked by create or by update returns an error, the
\* handler makes no call to the store and the store is as it was before
\* the request.
C5_HookErrorNoWrite ==
    [][ (/\ resp'.handled /\ resp'.op \in {"create", "update"}
         /\ \E i \in 1..Len(resp'.trace) : resp'.trace[i].hook \in resp'.fails)
            => /\ \A i \in 1..Len(resp'.trace) : resp'.trace[i].call = ""
               /\ store' = store ]_vars

\* A create of a valid object that is not in the store, refused by the
\* second of two hooks.
C5_Witness ==
    /\ resp.op = "create" /\ resp.handled
    /\ Len(rh.postHooks) = 2
    /\ resp.fails = {rh.postHooks[2]}
    /\ resp.err = HookError(rh.postHooks[2])
    /\ decodeObject(ResourceContext, [resp.body EXCEPT !.namespace = ""]).err = NoErr
    /\ store = EmptyStore

\* --------------------------------------------------------------------- C6

\* C6: when a hook invoked by delete returns an error, the store's delete
\* is not called, the store is as it was before the request and the
\* addressed object, if it was there, is still there.
C6_HookErrorNoDelete ==
    [][ (/\ resp'.handled /\ resp'.op = "delete"
         /\ \E i \in 1..Len(resp'.trace) : resp'.trace[i].hook \in resp'.fails)
            => /\ StoreCall("Delete") \notin Range(resp'.trace)
               /\ store' = store
               /\ (resp'.key \in DOMAIN store => resp'.key \in DOMAIN store') ]_vars

\* A delete of an object of the store, refused by a hook: the object is
\* still in the store.
C6_Witness ==
    /\ resp.op = "delete" /\ resp.handled
    /\ resp.err.type = "hook"
    /\ resp.key \in DOMAIN store
    /\ store[resp.key].name = resp.req.name

\* --------------------------------------------------------------------- C7

\* C7: a create of an object whose key is already in the store, once it is
\* past validation and hooks, is answered with the store's AlreadyExists
\* as a client error (400) and leaves the store, the record under that key
\* included, as it was.
C7_CreateExisting ==
    [][ (/\ resp'.handled /\ resp'.op = "create"
         /\ StoreCall("Create") \in Range(resp'.trace)
         /\ ObjectKeyFor(resp'.body).key \in DOMAIN store)
            => /\ resp'.err = newStatusError(StatusBadRequest, ErrAlreadyExists)
               /\ resp'.code = StatusBadRequest
               /\ store' = store ]_vars

\* A create of an object with another payload than the record under its
\* key was refused and the record kept its payload.
C7_Witness ==
    /\ resp.op = "create" /\ resp.handled
    /\ resp.err.msg = ErrAlreadyExists
    /\ ObjectKeyFor(resp.body).key \in DOMAIN store
    /\ store[ObjectKeyFor(resp.body).key].spec # resp.body.spec

\* --------------------------------------------------------------------- C8

\* C8: a delete of a key that is not in the store, with no hook returning
\* an error, invokes every delete hook in registration order, then calls
\* the store's delete, returns the store's NotFound error and leaves the
\* store as it was.
C8_DeleteMissing ==
    [][ (/\ resp'.handled /\ resp'.op = "delete"
         /\ resp'.key \notin DOMAIN store
         /\ resp'.fails \cap Range(rh.deleteHooks) = {})
            => /\ resp'.trace = HookCalls(rh.deleteHooks) \o <<StoreCall("Delete")>>
               /\ resp'.err.msg = ErrNotFound
               /\ store' = store ]_vars

\* A delete of a missing key on a handler with two delete hooks.
C8_Witness ==
    /\ resp.op = "delete" /\ resp.handled
    /\ Len(rh.deleteHooks) = 2
    /\ resp.fails = {}
    /\ resp.key \notin DOMAIN store
    /\ resp.err.msg = ErrNotFound
    /\ Len(resp.trace) = 3

\* --------------------------------------------------------------------- C9

C10_SingletonPatch ==
    [][ (/\ rh.gvkr.singleton
         /\ resp'.op = "patch" /\ resp'.handled
         /\ resp'.body \notin {BadBody, MultiBody}) =>
          LET k == SingletonKey(KindKey)
              old == IF k \in DOMAIN store THEN store[k]
                     ELSE [kind |-> KindKey, name |-> "", namespace |-> "", spec |-> ""]
              new == Merge(old, resp'.body)
          IN  /\ resp'.req.path = ResourcePath(rh.gvkr) \o "/"
              /\ resp'.code = StatusOK
              /\ resp'.key = k
              /\ store' = (k :> new) @@ store
              /\ resp'.obj \in {ThroughJSON(new), ThroughJSON(Default(new))} ]_vars

\* A PATCH whose fragment carries a name, a namespace and a payload was
\* answered with the singleton record holding that payload.
C10_Witness ==
    /\ rh.gvkr.singleton
    /\ resp.op = "patch" /\ resp.handled /\ resp.code = StatusOK
    /\ resp.body.name = "001-002" /\ resp.body.namespace = "p-001"
    /\ resp.body.spec = "None"
    /\ resp.obj.spec = "None"
    /\ store[SingletonKey(KindKey)].spec = "None"

\* -------------------------------------------------------------------- C11

\* C11: a patch whose body decodes to no partial object or to two is
\* answered with a 400 status error, makes no call to the store and leaves
\* it as it was; a patch whose body decodes to exactly one partial object
\* goes on to key resolution: it either has no identifier or reaches the
\* store's patch with the resolved key.
C11_PatchOneObject ==
    [][ (resp'.op = "patch" /\ resp'.handled) =>
          IF Frames(resp'.body) # 1
          THEN /\ resp'.err.type = "status"
               /\ resp'.code = StatusBadRequest
               /\ resp'.trace = <<>>
               /\ resp'.key = NoKey
               /\ store' = store
          ELSE \/ resp'.err = RawError(ErrNoIdentifier) /\ resp'.trace = <<>>
               \/ /\ resp'.key = PatchKeyFor(resp'.body).key
                  /\ resp'.trace[1] = StoreCall("Patch") ]_vars

\* A patch with a body of two partial objects was refused with 400 while
\* the store held a record.
C11_Witness ==
    /\ resp.op = "patch" /\ resp.handled
    /\ resp.body = MultiBody
    /\ resp.code = StatusBadRequest
    /\ store # EmptyStore

\* -------------------------------------------------------------------- C12

\* C12: the key of a patch is the key of the fragment's name and namespace
\* under the namespaced and singleton flags of the handler, whatever the
\* kind of the fragment and the capabilities that kind declares; when the
\* handler's flags give no identifier the patch ends without a key.
C12_HandlerFlagsDecide ==
    [][ (resp'.op = "patch" /\ resp'.handled /\ Frames(resp'.body) = 1) =>
          LET po == resp'.body
              flags == [ nsCap   |-> IF rh.gvkr.namespaced THEN "true" ELSE "false",
                         singCap |-> IF rh.gvkr.singleton THEN "true" ELSE "false" ]
              i == Identify(flags, po.name, po.namespace)
          IN  IF i.ok
              THEN resp'.key = NewObjectKey(po.kind, i.id)
              ELSE resp'.key = NoKey /\ resp'.err = RawError(ErrNoIdentifier) ]_vars

\* A fragment of a namespaced kind, with a name and a namespace, patched on
\* the handler of a singleton: the key is the singleton's, not the one the
\* fragment's own kind would give.
C12_Witness ==
    /\ rh.gvkr.singleton
    /\ resp.op = "patch" /\ resp.handled /\ resp.code = StatusOK
    /\ IsNamespaced(TypeOf(resp.body.kind))
    /\ resp.body.name # "" /\ resp.body.namespace # ""
    /\ resp.key = SingletonKey(resp.body.kind)
    /\ resp.key # ObjectKeyFor(resp.body).key

\* -------------------------------------------------------------------- C13

\* C13: a create or an update whose decoded object has an empty name is, on
\* the handler of a kind that is not a singleton, answered with the 400
\* status error "name must be set", with no hook or store call and the
\* store as it was; on the handler of a singleton the empty name is no
\* reason to refuse: an object that passes its kind's validation reaches
\* the store.
C13_NameRequired ==
    [][ (/\ resp'.op \in {"create", "update"} /\ resp'.handled
         /\ resp'.body # BadBody
         /\ ThroughJSON(resp'.body).name = "") =>
          IF ~rh.gvkr.singleton
          THEN /\ resp'.err = newStatusError(StatusBadRequest, "name must be set")
               /\ resp'.code = StatusBadRequest
               /\ resp'.trace = <<>>
               /\ store' = store
          ELSE Validate(resp'.body) =>
                  /\ resp'.trace # <<>>
                  /\ resp'.trace[Len(resp'.trace)].call \in {"Create", "Update"} ]_vars

\* An update of an object without a name was refused on the handler of a
\* kind that is not a singleton, while the store held a record.
C13_Witness ==
    /\ ~rh.gvkr.singleton
    /\ resp.op = "update" /\ resp.handled
    /\ resp.body # BadBody /\ resp.body.name = ""
    /\ resp.err.msg = "name must be set"
    /\ store # EmptyStore

\* -------------------------------------------------------------------- C14

\* C14: a create of an object of the handler's kind whose namespace is
\* empty is, on the handler of a namespaced kind, answered with a 400
\* status error (the missing namespace, when the object has a name), with
\* no hook invoked, no store call and the store as it was; on the handler
\* of a kind that is not namespaced the empty namespace is no reason to
\* refuse: a named, valid object goes on to the hooks and the store.
C14_NamespaceRequired ==
    [][ (/\ resp'.op = "create" /\ resp'.handled
         /\ resp'.body # BadBody
         /\ ThroughJSON(resp'.body).namespace = "") =>
          IF rh.gvkr.namespaced
          THEN /\ resp'.err.type = "status"
               /\ resp'.code = StatusBadRequest
               /\ resp'.body.name # "" =>
                    resp'.err.msg = ".metadata.namespace must be set for namespaced object"
               /\ resp'.trace = <<>>
               /\ store' = store
          ELSE /\ resp'.err.msg # ".metadata.namespace must be set for namespaced object"
               /\ ((rh.gvkr.singleton \/ resp'.body.name # "") /\ Validate(resp'.body))
                    => resp'.trace # <<>> ]_vars

\* A create of a named object without a namespace was refused on the
\* namespaced route of a handler with two create hooks, none of which ran.
C14_Witness ==
    /\ rh.gvkr.namespaced
    /\ Len(rh.postHooks) = 2
    /\ resp.op = "create" /\ resp.handled
    /\ resp.req.namespace = "p"
    /\ resp.body # BadBody /\ resp.body.name # "" /\ resp.body.namespace = ""
    /\ resp.code = StatusBadRequest
    /\ resp.trace = <<>>

\* -------------------------------------------------------------------- C15

\* C15: a create of a named object of a kind that is not namespaced, sent
\* with a namespace, is not refused for its namespace: a warning is added,
\* the object the hooks and the store are handed has an empty namespace,
\* and when the object is valid, no hook fails and its key is free the
\* answer is 201 with an object whose namespace is empty, which is also
\* what the store holds.
C15_NamespacePruned ==
    [][ (/\ resp'.op = "create" /\ resp'.handled
         /\ resp'.body # BadBody
         /\ ~IsNamespaced(TypeOf(resp'.body.kind))
         /\ resp'.body.name # ""
         /\ ThroughJSON(resp'.body).namespace # "") =>
          LET body == resp'.body
              pruned == [body EXCEPT !.namespace = ""]
              k == ObjectKeyFor(pruned).key
          IN  /\ resp'.warn
              /\ Validate(body) =>
                    /\ resp'.seen = pruned
                    /\ resp'.trace # <<>>
              /\ (/\ Validate(body)
                  /\ resp'.fails \cap Range(rh.postHooks) = {}
                  /\ k \notin DOMAIN store) =>
                    /\ resp'.code = StatusCreated
                    /\ resp'.obj = pruned
                    /\ store' = (k :> pruned) @@ store ]_vars

\* A create of a Project sent with the namespace "p", on a handler with a
\* create hook, was answered 201 with a warning and an empty namespace.
C15_Witness ==
    /\ ~rh.gvkr.namespaced /\ ~rh.gvkr.singleton
    /\ Len(rh.postHooks) >= 1
    /\ resp.op = "create" /\ resp.handled
    /\ resp.body.namespace = "p"
    /\ resp.code = StatusCreated
    /\ resp.warn
    /\ resp.obj.namespace = ""
    /\ resp.seen.namespace = ""
    /\ resp.trace[1].hook # 0

\* -------------------------------------------------------------------- C16

C18_GetReturnsStored ==
    [][ (resp' # resp /\ resp'.handled /\ resp'.op \in {"get", "getSingleton"}) =>
          LET req == resp'.req
              key == IF resp'.op = "getSingleton" THEN SingletonKey(KindKey)
                     ELSE IF rh.gvkr.namespaced
                     THEN NewObjectKey(KindKey,
                              NameNamespaceIdentifier(req.namespace, req.name))
                     ELSE NewObjectKey(KindKey, NameIdentifier(req.name))
          IN  /\ store' = store
              /\ resp'.key = key
              /\ IF key \in DOMAIN store
                 THEN /\ resp'.err = NoErr
                      /\ resp'.code = StatusOK
                      /\ resp'.obj \in { ThroughJSON(store[key]),
                                         ThroughJSON(Default(store[key])) }
                 ELSE /\ resp'.err = newStatusError(StatusNotFound, ErrNotFound)
                      /\ resp'.code = StatusNotFound
                      /\ resp'.obj = NoObj ]_vars

\* getSingleton on a store that holds no singleton answered 404.
C18_Witness ==
    /\ rh.gvkr.singleton
    /\ resp.op = "getSingleton" /\ resp.handled
    /\ SingletonKey(KindKey) \notin DOMAIN store
    /\ resp.err.type = "status"
    /\ resp.code = StatusNotFound

\* -------------------------------------------------------------------- C19

\* C19: an error that leaves an operation of the handler is answered with
\* the status code it carries: 404 when it is the store's NotFound, the code
\* of the status error when the handler made one, and the internal error
\* code for any other failure of the store.
C19_ErrorsTranslated ==
    (resp.handled /\ resp.err # NoErr) =>
        resp.code = (IF resp.err.msg = ErrNotFound THEN StatusNotFound
                     ELSE IF resp.err.type = "status" THEN resp.err.code
                     ELSE StatusInternalServerError)

\* -------------------------------------------------------------------- C20

\* C20: list answers 200 with exactly the stored objects of the handler's
\* kind: all of them, whatever their namespace, on the route without a
\* namespace parameter, and exactly those whose namespace is the path's on
\* /namespaces/<ns>/<resource>/; the store is left as it was.
C20_ListByNamespace ==
    [][ (resp' # resp /\ resp'.op = "list" /\ resp'.handled) =>
          LET req  == resp'.req
              objs == { store[k] : k \in {k \in DOMAIN store : k.kind = KindKey} }
              sel  == IF req.path = NamespacedPath(rh.gvkr) \o "/"
                      THEN {o \in objs : o.namespace = req.namespace}
                      ELSE objs
          IN  /\ resp'.err = NoErr
              /\ resp'.code = StatusOK
              /\ store' = store
              /\ \E d \in BOOLEAN : resp'.items = {JSONIndent(o, d) : o \in sel} ]_vars

\* A list on /namespaces/p/<resource>/ returned one of two stored objects,
\* the other being of another namespace.
C20_Witness ==
    /\ resp.op = "list" /\ resp.handled
    /\ resp.req.path = NamespacedPath(rh.gvkr) \o "/"
    /\ resp.req.namespace = "p"
    /\ Cardinality(DOMAIN store) = 2
    /\ Cardinality(resp.items) = 1
    /\ \A o \in resp.items : o.namespace = "p"
    /\ \E k \in DOMAIN store : store[k].namespace = "p-001"

\* -------------------------------------------------------------------- C21

\* C21: the registry holds a group-version handler for exactly the
\* group-versions of the scheme that are not ignored, and each of them holds
\* a resource handler for exactly the kinds of its group-version that are
\* not ignored; GroupVersion and Kind report found for these and not found
\* for every ignored or unregistered one.
C21_RegistryExact ==
    LET served == {t.gv : t \in args.scheme} \ args.ignoredGroups
        kindsOf(gv) == { t.kind : t \in {t \in args.scheme :
                            t.gv = gv /\ <<gv, t.kind>> \notin args.ignoredKinds} }
    IN  /\ DOMAIN agh = served
        /\ \A gv \in DOMAIN agh : DOMAIN agh[gv] = kindsOf(gv)
        /\ (found # NoLookup /\ found.kind = "") => (found.ok <=> found.gv \in served)
        /\ (found # NoLookup /\ found.kind # "") =>
              /\ found.gv \in served
              /\ found.ok <=> found.kind \in kindsOf(found.gv)
              /\ found.ok => found.rh.gvkr.kind = found.kind

\* With the ignored sets of cmd/digitized, Kind("Config") reported not
\* found on the handler of the application's group-version.
C21_Witness ==
    /\ args = ProgramArgs
    /\ found.gv = V1alpha1
    /\ found.kind = "Config"
    /\ ~found.ok
    /\ "Clip" \in DOMAIN agh[V1alpha1]

\* -------------------------------------------------------------------- C22

\* C22: the file makeVideoConfig wrote for output video i holds, in
\* ascending order, one file entry for each clip from i * PerVideo to
\* min(i * PerVideo + PerVideo - 1, ToVideo), the entries separated by one
\* blank line, with the inpoint line of FromDuration directly after the
\* entry of clip FromVideo and the outpoint line of ToDuration directly
\* after the entry of clip ToVideo.
C22_VideoConfig ==
    (phase = "converting" /\ videoIndex > 0) =>
        LET i  == videoIndex - 1
            lo == i * cfg.PerVideo
            hi == IF lo + cfg.PerVideo - 1 < cfg.ToVideo
                  THEN lo + cfg.PerVideo - 1 ELSE cfg.ToVideo
            entry(j) ==
                <<FileLine(j)>>
                \o (IF j = cfg.FromVideo
                    THEN <<PointLine("inpoint", cfg.FromDuration)>> ELSE <<>>)
                \o (IF j = cfg.ToVideo
                    THEN <<PointLine("outpoint", cfg.ToDuration)>> ELSE <<>>)
            expected[j \in lo..hi] ==
                IF j = hi THEN entry(j)
                ELSE entry(j) \o <<BlankLine>> \o expected[j + 1]
        IN  w = expected[lo]

\* -------------------------------------------------------------------- C23

\* C23: a request on a route with a :namespace parameter reaches the
\* handler's method only with a non-empty namespace: with an empty one the
\* answer is the status error 400 of the namespaced layer, the method is
\* not invoked and the store is left as it was.
C23_NamespaceParamRequired ==
    [][ (/\ resp' # resp
         /\ rh.gvkr.namespaced
         /\ resp'.op # ""
         /\ HasNamespaceParam(rh.gvkr, resp'.req.path)) =>
          /\ resp'.handled => resp'.req.namespace # ""
          /\ resp'.req.namespace = "" =>
                /\ ~resp'.handled
                /\ resp'.err = newStatusError(StatusBadRequest,
                                              "namespace parameter is mandatory")
                /\ resp'.code = StatusBadRequest
                /\ resp'.trace = <<>>
                /\ store' = store ]_vars

\* A POST on /namespaces//<resource>/ was answered 400 before create ran.
C23_Witness ==
    /\ rh.gvkr.namespaced
    /\ resp.op = "create" /\ ~resp.handled
    /\ resp.req.path = NamespacedPath(rh.gvkr) \o "/"
    /\ resp.req.namespace = ""
    /\ resp.body # BadBody /\ resp.body.namespace = "p"
    /\ resp.code = StatusBadRequest

\* -------------------------------------------------------------------- C24

\* C24: behind the named layer the name of the context is the singleton
\* sentinel for a singleton kind, whatever the :name parameter is, and the
\* :name parameter otherwise; an empty :name of a kind that is not a
\* singleton is answered 400 and next is not called; the object key of the
\* context is the key of that name, joined with the namespace of the
\* enclosing namespaced context when there is one.
C24_NamedLayer ==
    (phase = "layer" /\ resp.op = "next") =>
        LET req       == resp.req
            enclosing == HasNamespaceParam(rh.gvkr, req.path)
            name      == IF rh.gvkr.singleton THEN "__singleton" ELSE req.name
        IN  IF enclosing /\ (~rh.gvkr.namespaced \/ req.namespace = "")
            THEN ~resp.handled /\ resp.err.type = "status"
            ELSE IF ~rh.gvkr.singleton /\ req.name = ""
            THEN /\ ~resp.handled
                 /\ resp.err = newStatusError(StatusBadRequest,
                                              "name parameter is mandatory")
                 /\ resp.code = StatusBadRequest
            ELSE /\ resp.handled
                 /\ resp.err = NoErr
                 /\ resp.key = NewObjectKey(rh.gvkr.kind,
                        IF enclosing THEN NameNamespaceIdentifier(req.namespace, name)
                        ELSE NameIdentifier(name))

\* On the handler of the singleton kind a request with the :name parameter
\* 002 reached next with the key of the sentinel.
C24_Witness ==
    /\ phase = "layer"
    /\ rh.gvkr.singleton
    /\ resp.op = "next" /\ resp.handled
    /\ resp.req.name = "002"
    /\ resp.key = [kind |-> "Recorder", id |-> "__singleton"]

\* -------------------------------------------------------------------- C25

\* C25: the KindDescriptor of every registered kind has singleton true
\* exactly when the type declares the singleton capability and reports
\* true, namespaced true exactly when it declares the namespaced capability
\* and reports true, and as resource the lowercased plural of the kind, or
\* the lowercased kind itself when the kind is a singleton.
C25_KindDescriptor ==
    \A gv \in DOMAIN agh : \A k \in DOMAIN agh[gv] :
        LET t == CHOOSE t \in args.scheme : t.gv = gv /\ t.kind = k
            g == agh[gv][k].gvkr
        IN  /\ g.kind = k
            /\ g.singleton = (t.singCap = "true")
            /\ g.namespaced = (t.nsCap = "true")
            /\ g.resource = ToLower(IF g.singleton THEN k ELSE Plural(k))
            /\ k = "Recorder" => g.resource = "recorder"
            /\ k = "Project" => g.resource = "projects"
            /\ k = "Clip" => g.resource = "clips"
            /\ (found.ok /\ found.gv = gv /\ found.kind = k) => found.rh.gvkr = g

\* Kind("Recorder") returned the handler of the singleton kind, whose
\* resource is the kind's name in lower case.
C25_Witness ==
    /\ found.ok
    /\ found.kind = "Recorder"
    /\ found.rh.gvkr =
          [kind |-> "Recorder", resource |-> "recorder", namespaced |-> FALSE,
           singleton |-> TRUE]
    /\ "Status" \in DOMAIN agh[Unversioned]

\* -------------------------------------------------------------------- C26

\* C26: the store patch of a PATCH and the re-read of its key are two store
\* calls between which the requests of other clients are served: the store
\* patch leaves the merged object under the key, and the answer is the
\* record under the key when the re-read is made, 404 when there is none
\* by then, whatever the store patch had left.
C26_PatchNotAtomic ==
    [][ /\ (~inflight.active /\ inflight'.active) =>
              /\ inflight'.key \in DOMAIN store'
              /\ store'[inflight'.key] = inflight'.patched
              /\ resp' = resp
        /\ (inflight.active /\ inflight'.active) => inflight' = inflight
        /\ (inflight.active /\ ~inflight'.active) =>
              /\ store' = store
              /\ resp'.op = "patch" /\ resp'.handled
              /\ resp'.key = inflight.key
              /\ resp'.trace = <<StoreCall("Patch"), StoreCall("Get")>>
              /\ IF inflight.key \in DOMAIN store
                 THEN /\ resp'.code = StatusOK
                      /\ resp'.obj \in { ThroughJSON(store[inflight.key]),
                                         ThroughJSON(Default(store[inflight.key])) }
                 ELSE /\ resp'.code = StatusNotFound
                      /\ resp'.obj = NoObj ]_vars

\* A PATCH whose store patch succeeded answered 404: the record was deleted
\* before the re-read.
C26_Witness ==
    /\ resp.op = "patch" /\ resp.handled
    /\ resp.trace = <<StoreCall("Patch"), StoreCall("Get")>>
    /\ resp.code = StatusNotFound
    /\ resp.key \notin DOMAIN store
    /\ ~inflight.active

\* -------------------------------------------------------------------- C27

\* C27: once the server is serving, no request changes the handler's
\* KindDescriptor, its three hook lists or the route table: a step of a
\* serving handler changes at most the store and the response.
C27_RequestsFrame ==
    [][ phase = "serving" =>
          /\ phase' = "serving"
          /\ rh' = rh
          /\ routes' = routes
          /\ nextHook' = nextHook ]_vars

\* A handler with a POST hook and a DELETE hook served a DELETE that removed
\* the record a POST had created, and holds both hooks still.
C27_Witness ==
    /\ phase = "serving"
    /\ Len(rh.postHooks) = 1 /\ Len(rh.deleteHooks) = 1
    /\ routes = newResourceHandler(rh.gvkr)
    /\ resp.op = "delete" /\ resp.handled
    /\ resp.code = StatusNoContent
    /\ Len(resp.trace) = 2

\* -------------------------------------------------------------------- C28

C29_ValidatedBeforeHooks ==
    [][ (resp' # resp /\ resp'.op \in {"create", "update"} /\ resp'.handled) =>
          LET body == resp'.body
              req  == resp'.req
          IN  /\ (body = BadBody \/ ~Validate(ThroughJSON(body))) =>
                    /\ resp'.err.type = "status"
                    /\ resp'.code = StatusBadRequest
                    /\ resp'.trace = <<>>
                    /\ store' = store
              /\ (resp'.trace # <<>> \/ store' # store) =>
                    /\ body # BadBody
                    /\ Validate(ThroughJSON(body))
                    /\ ~rh.gvkr.singleton => body.name # ""
                    /\ rh.gvkr.namespaced =>
                          (body.namespace # "" /\ body.namespace = req.namespace) ]_vars

\* On a handler with a POST hook that would not fail, a POST of an object
\* with a name and the path's namespace whose Validate() fails was answered
\* 400 with no hook invoked.
C29_Witness ==
    /\ Len(rh.postHooks) >= 1
    /\ resp.op = "create" /\ resp.handled
    /\ resp.fails = {}
    /\ resp.body # BadBody
    /\ resp.body.name # ""
    /\ resp.body.namespace = resp.req.namespace
    /\ ~Validate(resp.body)
    /\ resp.code = StatusBadRequest
    /\ resp.trace = <<>>

\* -------------------------------------------------------------------- C30

\* C30: every object that create or update writes to the store through the
\* handler of kind R has the kind of R, a name when R is not a singleton,
\* the namespace of the path when R is namespaced and no namespace when R
\* is not.
C30_WrittenKindIsHandlers ==
    [][ (resp' # resp /\ resp'.op \in {"create", "update"} /\ resp'.handled
            /\ resp'.err = NoErr) =>
          /\ resp'.seen.kind = rh.gvkr.kind
          /\ ~rh.gvkr.singleton => resp'.seen.name # ""
          /\ IF rh.gvkr.namespaced
              THEN resp'.seen.namespace # ""
                     /\ resp'.seen.namespace = resp'.req.namespace
              ELSE resp'.seen.namespace = "" ]_vars

====
